---- MODULE Spec2Model ----
(***************************************************************************)
(* Color Tap Mania: the per-frame simulation of GameCanvas.tsx (gameLoop,  *)
(* initGame, createObstacle, checkCollision, handleTap and the three       *)
(* effects that start, reset and stop the frame loop) together with the    *)
(* parent component ColorSwitchGame.tsx that owns score, high score,       *)
(* pause and the current screen.                                           *)
(*                                                                         *)
(* Numbers.  The program computes in IEEE doubles; the model computes in   *)
(* fixed point and rounds every product towards minus infinity:            *)
(*   lengths and velocities   1/100 px        (Px(n) is n px)              *)
(*   time                     1/100 ms        (Ms(n) is n ms)              *)
(*   angles                   1/100000 rad                                 *)
(*   Math.random()            1/1000          (a draw r stands for r/1000) *)
(*   flash intensity          1/1000                                       *)
(* deltaTime = elapsed / 16.67 is kept as the elapsed time dtNum, and      *)
(* x * deltaTime is Times(x, dtNum) = floor(x * dtNum / TICK).             *)
(***************************************************************************)
EXTENDS Integers, Sequences, FiniteSets, TLC

----------------------------------------------------------------------------
(* Program constants *)

GRAVITY == 35             \* 0.35 px per tick^2, in 1/100 px
JUMP_FORCE == -9          \* px per tick
BALL_RADIUS == 15         \* px
OBSTACLE_GAP == 300       \* px
OBSTACLE_RADIUS == 140    \* px, createObstacle: radius: 140
PASS_MARGIN == 20         \* px, gameLoop: obstacle.y - obstacle.radius - 20
TICK == 1667              \* 16.67 ms, in 1/100 ms
COLOR_DELAY == 1000       \* ms, gameLoop: timestamp + 1000
PI == 314159              \* Math.PI, in 1/100000 rad
PRUNE_MARGIN == 200       \* px, gameLoop: cameraY + canvas.height + 200
BOTTOM_MARGIN == 50       \* px, gameLoop: cameraY + canvas.height + 50
INITIAL_OBSTACLES == 5    \* generateInitialObstacles: i < 5
MAX_ATTEMPTS == 10        \* createObstacle: maxAttempts
DOT_THICKNESS == 20       \* px, checkCollision: dotCircle
RING_THICKNESS == 14      \* px, checkCollision: ring, halfRing
SWITCHER_REACH == 15      \* px, checkColorSwitcher: ball.radius + 15
STAR_OFFSET == 40         \* px, gameLoop: OBSTACLE_GAP / 2 - 40
FLASH_DECAY == 50         \* 0.05 per tick, in 1/1000
FLASH_FULL == 1000        \* colorChangeFlashRef.current = 1.0, in 1/1000

COLOR_ORDER == <<"cyan", "purple", "pink", "yellow">>

Px(n) == n * 100
Ms(n) == n * 100
TwoPi == 2 * PI
HalfPi == PI \div 2

----------------------------------------------------------------------------
(* Bounds of the model and the inputs it enumerates *)

MaxFrames == 18           \* display refreshes delivered in one behaviour
MaxMounts == 2            \* GameCanvas instances created (handleStart)
MaxToggles == 2           \* pause/resume clicks
MaxRests == 1             \* refreshes the player lets pass without a tap

FrameDeltas == {Ms(250)}            \* time between two display refreshes
Viewports == {[w |-> 400, h |-> 180]}   \* window.innerWidth x innerHeight, px
ColorDraws == {250, 750}            \* Math.random() in getRandomColor
DirDraws == {750}                   \* Math.random() > 0.5 in createObstacle
FactorDraws == {999}                \* 0.6 + Math.random() in createObstacle
\* Math.random() * 2 PI in createObstacle, for the obstacle created with `index`
RotDraws(index) ==
  CASE index = 0 -> {170}
    [] index = 1 -> {760}
    [] index = 2 -> {100}
    [] index = 4 -> {300}
    [] OTHER -> {200}
StarDraws == {250, 750}             \* Math.random() > 0.5 in gameLoop
StoredScores == {0}                \* localStorage colorSwitchHighScore at load

----------------------------------------------------------------------------
(* Arithmetic helpers *)

Abs(x) == IF x < 0 THEN -x ELSE x
Max(a, b) == IF a >= b THEN a ELSE b

\* x * deltaTime, deltaTime = dtNum / 16.67 ms
Times(x, dtNum) == (x * dtNum) \div TICK

\* index of a color in COLOR_ORDER, 0-based (COLOR_ORDER.indexOf)
IndexOf(color) == (CHOOSE i \in 1..Len(COLOR_ORDER) : COLOR_ORDER[i] = color) - 1

\* NextColor stepping backwards
PreviousColor(color) ==
  COLOR_ORDER[((IndexOf(color) + Len(COLOR_ORDER) - 1) % Len(COLOR_ORDER)) + 1]

\* COLOR_ORDER[(indexOf(color) + 1) % COLOR_ORDER.length]
NextColor(color) == COLOR_ORDER[((IndexOf(color) + 1) % Len(COLOR_ORDER)) + 1]

\* COLOR_ORDER[Math.floor(Math.random() * COLOR_ORDER.length)]
getRandomColor(r) == COLOR_ORDER[((r * Len(COLOR_ORDER)) \div 1000) + 1]

----------------------------------------------------------------------------
(* createObstacle, generateInitialObstacles, initGame *)

\* index % 5 === 0 ? 'dotCircle' : (index % 2 === 0 ? 'ring' : 'halfRing')
ObstacleType(index) ==
  IF index % 5 = 0 THEN "dotCircle"
  ELSE IF index % 2 = 0 THEN "ring" ELSE "halfRing"

\* One sample of the do-while body: d and r are the two Math.random() draws.
CandidateSpeed(index, d, r) ==
  LET direction == IF d > 500 THEN 1 ELSE -1
      randomFactor == 600 + r                       \* 0.6 + Math.random()
      indexFactor == 800 + (index % 11) * 400       \* 0.008 + (index % 11) * 0.004
      baseSpeed == IF ObstacleType(index) = "dotCircle"
                   THEN (indexFactor * 5) \div 2 ELSE indexFactor
  IN direction * ((baseSpeed * randomFactor * 12) \div 10000)

\* SpeedAccepted without the floor of 0.005 in minDiff
SpeedAcceptedNoFloor(rotationSpeed, prevSpeed) ==
  LET speedDiff == Abs(Abs(rotationSpeed) - Abs(prevSpeed))
      isDifferentDirection == (rotationSpeed > 0) # (prevSpeed > 0)
  IN speedDiff > Abs(prevSpeed) \div 5 \/ isDifferentDirection

\* speedDiff > minDiff || isDifferentDirection
SpeedAccepted(rotationSpeed, prevSpeed) ==
  LET speedDiff == Abs(Abs(rotationSpeed) - Abs(prevSpeed))
      minDiff == Max(Abs(prevSpeed) \div 5, 500)    \* max(|prev| * 0.2, 0.005)
      isDifferentDirection == (rotationSpeed > 0) # (prevSpeed > 0)
  IN speedDiff > minDiff \/ isDifferentDirection

\* SpeedSamples leaving unconditionally one sample later (attempts > maxAttempts)
RECURSIVE SpeedSamplesOneMore(_, _, _, _, _)
SpeedSamplesOneMore(index, prevSpeed, attempts, dirs, factors) ==
  LET samples == {CandidateSpeed(index, d, r) : d \in dirs, r \in factors}
      leaving == {s \in samples :
                    SpeedAccepted(s, prevSpeed) \/ attempts + 1 > MAX_ATTEMPTS}
  IN {[rotationSpeed |-> s, attempts |-> attempts + 1] : s \in leaving}
       \cup (IF leaving = samples THEN {}
             ELSE SpeedSamplesOneMore(index, prevSpeed, attempts + 1, dirs, factors))

\* The do-while loop with `attempts` samples rejected so far, its two draws
\* taken from `dirs` and `factors`: the speeds it can return, each with the
\* value of `attempts` at the break.
RECURSIVE SpeedSamples(_, _, _, _, _)
SpeedSamples(index, prevSpeed, attempts, dirs, factors) ==
  LET samples == {CandidateSpeed(index, d, r) : d \in dirs, r \in factors}
      leaving == {s \in samples :
                    SpeedAccepted(s, prevSpeed) \/ attempts + 1 >= MAX_ATTEMPTS}
  IN {[rotationSpeed |-> s, attempts |-> attempts + 1] : s \in leaving}
       \cup (IF leaving = samples THEN {}
             ELSE SpeedSamples(index, prevSpeed, attempts + 1, dirs, factors))

\* The rotation speeds the do-while loop can return when `attempts` samples
\* have been rejected so far.
SpeedLoop(index, prevSpeed, attempts) ==
  {x.rotationSpeed : x \in SpeedSamples(index, prevSpeed, attempts, DirDraws, FactorDraws)}

\* The record createObstacle returns; id stands for generateId().
createObstacle(y, index, rotationSpeed, rotDraw, id) ==
  [ id |-> id,
    type |-> ObstacleType(index),
    y |-> y,
    rotation |-> (rotDraw * TwoPi) \div 1000,
    rotationSpeed |-> rotationSpeed,
    radius |-> OBSTACLE_RADIUS,
    passed |-> FALSE ]

\* The obstacle lists generateInitialObstacles can return, built from `acc`.
RECURSIVE InitialObstacles(_, _, _)
InitialObstacles(canvasHeight, acc, firstId) ==
  LET i == Len(acc)
      startY == (Px(canvasHeight) * 3) \div 10
      prevSpeed == IF i > 0 THEN acc[i].rotationSpeed ELSE 0
  IN IF i >= INITIAL_OBSTACLES THEN {acc}
     ELSE UNION { InitialObstacles(canvasHeight,
                     Append(acc, createObstacle(startY - i * Px(OBSTACLE_GAP), i, s, rot,
                                                firstId + i)),
                     firstId)
                : s \in SpeedLoop(i, prevSpeed, 0), rot \in RotDraws(i) }

generateInitialObstacles(canvasHeight, firstId) ==
  InitialObstacles(canvasHeight, <<>>, firstId)

\* The game states initGame can return.
initGame(canvasWidth, canvasHeight, storedHigh, firstId) ==
  { [ status |-> "playing",
      score |-> 0,
      highScore |-> storedHigh,
      ball |-> [ x |-> Px(canvasWidth) \div 2,
                 y |-> (Px(canvasHeight) * 7) \div 10,
                 radius |-> BALL_RADIUS,
                 velocity |-> 0,
                 color |-> getRandomColor(c) ],
      obstacles |-> obs,
      stars |-> <<>>,
      colorSwitchers |-> <<>>,
      cameraY |-> 0 ]
    : c \in ColorDraws, obs \in generateInitialObstacles(canvasHeight, firstId) }

----------------------------------------------------------------------------
(* checkCollision *)

Thickness(type) == IF type = "dotCircle" THEN DOT_THICKNESS ELSE RING_THICKNESS

\* Math.sqrt(dx * dx + dy * dy) <= r, for r >= 0, without overflowing
DistanceLE(dx, dy, r) ==
  /\ Abs(dx) <= r
  /\ Abs(dy) <= r
  /\ dx * dx + dy * dy <= r * r

\* Math.sqrt(dx * dx + dy * dy) >= r
DistanceGE(dx, dy, r) ==
  \/ Abs(dx) >= r
  \/ Abs(dy) >= r
  \/ dx * dx + dy * dy >= r * r

\* Math.atan2(dy, dx) on the axes (the ball and the obstacles share one lane)
Atan2(dy, dx) ==
  CASE dx = 0 /\ dy > 0 -> HalfPi
    [] dx = 0 /\ dy < 0 -> -HalfPi
    [] dy = 0 /\ dx >= 0 -> 0
    [] dy = 0 /\ dx < 0 -> PI

\* while (angle < 0) angle += 2 PI; while (angle >= 2 PI) angle -= 2 PI
NormalizeAngle(angle) == angle % TwoPi

\* SegmentColor with 8 dots per color group
SegmentColorEightDots(type, angle) ==
  IF type = "dotCircle"
  THEN LET dotIndex == (angle * 24) \div TwoPi
           colorIndex == dotIndex \div 8
       IN COLOR_ORDER[(colorIndex % 4) + 1]
  ELSE LET segmentIndex == angle \div HalfPi
       IN COLOR_ORDER[(segmentIndex % 4) + 1]

\* the color of the segment at a normalised angle
SegmentColor(type, angle) ==
  IF type = "dotCircle"
  THEN LET dotIndex == (angle * 24) \div TwoPi
           colorIndex == dotIndex \div 6
       IN COLOR_ORDER[(colorIndex % 4) + 1]
  ELSE LET segmentIndex == angle \div HalfPi
       IN COLOR_ORDER[(segmentIndex % 4) + 1]

\* InBand with the two radii counted as part of the band
InBandClosed(ball, obstacle, centerX) ==
  LET dx == ball.x - centerX
      dy == ball.y - obstacle.y
      thickness == Thickness(obstacle.type)
      innerRadius == Px(obstacle.radius - thickness - ball.radius)
      outerRadius == Px(obstacle.radius + thickness + ball.radius)
  IN ~(DistanceLE(dx, dy, innerRadius - 1) \/ DistanceGE(dx, dy, outerRadius + 1))

\* !(distance <= innerRadius || distance >= outerRadius)
InBand(ball, obstacle, centerX) ==
  LET dx == ball.x - centerX
      dy == ball.y - obstacle.y
      thickness == Thickness(obstacle.type)
      innerRadius == Px(obstacle.radius - thickness - ball.radius)
      outerRadius == Px(obstacle.radius + thickness + ball.radius)
  IN ~(DistanceLE(dx, dy, innerRadius) \/ DistanceGE(dx, dy, outerRadius))

BandColor(ball, obstacle, centerX) ==
  SegmentColor(obstacle.type,
               NormalizeAngle(Atan2(ball.y - obstacle.y, ball.x - centerX)
                              - obstacle.rotation))

\* checkCollision without the comparison of the colors
checkCollisionAnyColor(ball, obstacle, centerX) ==
  InBand(ball, obstacle, centerX)

checkCollision(ball, obstacle, centerX) ==
  IF ~InBand(ball, obstacle, centerX) THEN FALSE
  ELSE ball.color # BandColor(ball, obstacle, centerX)

\* checkColorSwitcher: distance < ball.radius + 15
checkColorSwitcher(ball, switcher) ==
  ~DistanceGE(ball.x - switcher.x, ball.y - switcher.y, Px(ball.radius + SWITCHER_REACH))

----------------------------------------------------------------------------
(* The steps of one playing tick of gameLoop.  A tick works on a context:  *)
(* the game state and the refs it writes, the notifications it has sent    *)
(* (out) and a record of what it did (applied, passes, hit, via, phases).  *)

Context(g, p, f, ls, ids) ==
  [ game |-> g, pending |-> p, flash |-> f, lastSpeed |-> ls, idCtr |-> ids,
    out |-> <<>>, over |-> FALSE, via |-> "none", hit |-> <<>>,
    applied |-> <<>>, passes |-> <<>>, phases |-> <<>> ]

\* ApplyPending with timestamp > ...timestamp
ApplyPendingLate(c, timestamp) ==
  LET c1 == [c EXCEPT !.phases = Append(@, "deferred")]
  IN IF c.pending # <<>> /\ timestamp > c.pending[1].timestamp
     THEN [c1 EXCEPT !.game.ball.color = c.pending[1].newColor,
                     !.flash = FLASH_FULL,
                     !.pending = <<>>,
                     !.applied = <<[from |-> c.game.ball.color,
                                    to |-> c.pending[1].newColor,
                                    due |-> c.pending[1].timestamp]>>]
     ELSE c1

\* ApplyPending that never finds the change due
ApplyPendingNever(c, timestamp) ==
  [c EXCEPT !.phases = Append(@, "deferred")]

\* if (pendingColorChangeRef.current && timestamp >= ...timestamp) { ... }
ApplyPending(c, timestamp) ==
  LET c1 == [c EXCEPT !.phases = Append(@, "deferred")]
  IN IF c.pending # <<>> /\ timestamp >= c.pending[1].timestamp
     THEN [c1 EXCEPT !.game.ball.color = c.pending[1].newColor,
                     !.flash = FLASH_FULL,
                     !.pending = <<>>,
                     !.applied = <<[from |-> c.game.ball.color,
                                    to |-> c.pending[1].newColor,
                                    due |-> c.pending[1].timestamp]>>]
     ELSE c1

\* Physics with a camera that is always at its target
PhysicsCameraOnBall(c, dtNum, canvasHeight) ==
  LET velocity == c.game.ball.velocity + Times(GRAVITY, dtNum)
      y == c.game.ball.y + Times(velocity, dtNum)
      targetCameraY == y - (Px(canvasHeight) * 7) \div 10
      obs == c.game.obstacles
  IN [c EXCEPT !.game.ball.velocity = velocity,
               !.game.ball.y = y,
               !.game.cameraY = targetCameraY,
               !.game.obstacles =
                  [i \in 1..Len(obs) |->
                     [obs[i] EXCEPT !.rotation = @ + Times(obs[i].rotationSpeed, dtNum)]],
               !.phases = Append(@, "physics")]

\* gravity, camera smoothing, obstacle rotation
Physics(c, dtNum, canvasHeight) ==
  LET velocity == c.game.ball.velocity + Times(GRAVITY, dtNum)
      y == c.game.ball.y + Times(velocity, dtNum)
      targetCameraY == y - (Px(canvasHeight) * 7) \div 10
      cameraY == c.game.cameraY + (targetCameraY - c.game.cameraY) \div 10
      obs == c.game.obstacles
  IN [c EXCEPT !.game.ball.velocity = velocity,
               !.game.ball.y = y,
               !.game.cameraY = cameraY,
               !.game.obstacles =
                  [i \in 1..Len(obs) |->
                     [obs[i] EXCEPT !.rotation = @ + Times(obs[i].rotationSpeed, dtNum)]],
               !.phases = Append(@, "physics")]

\* Schedule without the test of pendingColorChangeRef.current
ScheduleOverwrite(c, timestamp) ==
  IF c.game.score % 2 = 0
  THEN [c EXCEPT !.pending = <<[timestamp |-> timestamp + Ms(COLOR_DELAY),
                                newColor |-> NextColor(c.game.ball.color)]>>]
  ELSE c

\* if (game.score % 2 === 0 && !pendingColorChangeRef.current) { schedule }
Schedule(c, timestamp) ==
  IF c.game.score % 2 = 0 /\ c.pending = <<>>
  THEN [c EXCEPT !.pending = <<[timestamp |-> timestamp + Ms(COLOR_DELAY),
                                newColor |-> NextColor(c.game.ball.color)]>>]
  ELSE c

\* if (!obstacle.passed && game.ball.y < obstacle.y - obstacle.radius - 20)
HasPassed(ball, obstacle) ==
  ball.y < obstacle.y - Px(obstacle.radius) - Px(PASS_MARGIN)

\* MarkPassed calling onScoreChange before the increment
MarkPassedStaleNote(c, i) ==
  [c EXCEPT !.game.obstacles[i].passed = TRUE,
            !.game.score = @ + 1,
            !.out = Append(@, [kind |-> "score", score |-> c.game.score]),
            !.passes = Append(@, c.game.obstacles[i].id)]

\* obstacle.passed = true; game.score += 1; onScoreChange(game.score)
MarkPassed(c, i) ==
  [c EXCEPT !.game.obstacles[i].passed = TRUE,
            !.game.score = @ + 1,
            !.out = Append(@, [kind |-> "score", score |-> c.game.score + 1]),
            !.passes = Append(@, c.game.obstacles[i].id)]

\* PassLoop without the test of the passed flag
RECURSIVE PassLoopPassedToo(_, _, _)
PassLoopPassedToo(c, i, timestamp) ==
  IF i > Len(c.game.obstacles) THEN c
  ELSE IF HasPassed(c.game.ball, c.game.obstacles[i])
       THEN PassLoopPassedToo(Schedule(MarkPassed(c, i), timestamp), i + 1, timestamp)
       ELSE PassLoopPassedToo(c, i + 1, timestamp)

\* for (const obstacle of game.obstacles) { pass, score, schedule }, from index i
RECURSIVE PassLoop(_, _, _)
PassLoop(c, i, timestamp) ==
  IF i > Len(c.game.obstacles) THEN c
  ELSE IF ~c.game.obstacles[i].passed /\ HasPassed(c.game.ball, c.game.obstacles[i])
       THEN PassLoop(Schedule(MarkPassed(c, i), timestamp), i + 1, timestamp)
       ELSE PassLoop(c, i + 1, timestamp)

ScoreStep(c, timestamp) ==
  PassLoop([c EXCEPT !.phases = Append(@, "score")], 1, timestamp)

\* Collides without the test of the passed flag
CollidesPassedToo(c, i, centerX) ==
  checkCollision(c.game.ball, c.game.obstacles[i], centerX)

\* the obstacle the collision loop tests at index i
Collides(c, i, centerX) ==
  ~c.game.obstacles[i].passed /\ checkCollision(c.game.ball, c.game.obstacles[i], centerX)

\* for (const obstacle of game.obstacles) { if (!passed && checkCollision) game over }
RECURSIVE CollisionLoop(_, _, _)
CollisionLoop(c, i, centerX) ==
  IF i > Len(c.game.obstacles) THEN c
  ELSE IF Collides(c, i, centerX)
       THEN [c EXCEPT !.game.status = "gameover",
                      !.out = Append(@, [kind |-> "gameover", score |-> c.game.score]),
                      !.over = TRUE,
                      !.via = "collision",
                      !.hit = <<c.game.obstacles[i]>>]
       ELSE CollisionLoop(c, i + 1, centerX)

CollisionStep(c, centerX) ==
  CollisionLoop([c EXCEPT !.phases = Append(@, "collision")], 1, centerX)

\* HighestObstacle with Math.max in place of Math.min
LowestObstacle(obstacles) ==
  CHOOSE y \in {obstacles[i].y : i \in 1..Len(obstacles)} :
     \A j \in 1..Len(obstacles) : y >= obstacles[j].y

\* Math.min(...game.obstacles.map(o => o.y))
HighestObstacle(obstacles) ==
  CHOOSE y \in {obstacles[i].y : i \in 1..Len(obstacles)} :
     \A j \in 1..Len(obstacles) : y <= obstacles[j].y

\* GeneratorFires one OBSTACLE_GAP later
GeneratorFiresLate(game) ==
  game.ball.y < HighestObstacle(game.obstacles) + Px(OBSTACLE_GAP)

\* if (game.ball.y < highestObstacle + OBSTACLE_GAP * 2)
GeneratorFires(game) ==
  game.ball.y < HighestObstacle(game.obstacles) + Px(OBSTACLE_GAP) * 2

\* the body of the generator: one obstacle, one switcher, a star on starDraw > 0.5
Generate(c, centerX, rotationSpeed, rotDraw, starDraw) ==
  LET highestObstacle == HighestObstacle(c.game.obstacles)
      newObstacle == createObstacle(highestObstacle - Px(OBSTACLE_GAP),
                                    Len(c.game.obstacles), rotationSpeed, rotDraw, c.idCtr)
      switcher == [ id |-> c.idCtr + 1, x |-> centerX,
                    y |-> highestObstacle - Px(OBSTACLE_GAP) \div 2, used |-> FALSE ]
      star == [ id |-> c.idCtr + 2, x |-> centerX,
                y |-> highestObstacle - Px(OBSTACLE_GAP) \div 2 - Px(STAR_OFFSET),
                collected |-> FALSE ]
  IN [c EXCEPT !.lastSpeed = newObstacle.rotationSpeed,
               !.game.obstacles = Append(@, newObstacle),
               !.game.colorSwitchers = Append(@, switcher),
               !.game.stars = IF starDraw > 500 THEN Append(@, star) ELSE @,
               !.idCtr = @ + 3]

\* the contexts the generation step can leave
GenerationStep(c, centerX) ==
  LET c1 == [c EXCEPT !.phases = Append(@, "generation")]
  IN IF ~GeneratorFires(c.game) THEN {c1}
     ELSE { Generate(c1, centerX, s, rot, sd) :
              s \in SpeedLoop(Len(c.game.obstacles), c.lastSpeed, 0),
              rot \in RotDraws(Len(c.game.obstacles)), sd \in StarDraws }

\* SwitcherStep also moving the ball's color one step on when a switcher is used
SwitcherStepChangesColor(c) ==
  LET sw == c.game.colorSwitchers
      reached == \E i \in 1..Len(sw) :
                   ~sw[i].used /\ checkColorSwitcher(c.game.ball, sw[i])
  IN [c EXCEPT !.game.colorSwitchers =
                 [i \in 1..Len(sw) |->
                    IF ~sw[i].used /\ checkColorSwitcher(c.game.ball, sw[i])
                    THEN [sw[i] EXCEPT !.used = TRUE] ELSE sw[i]],
               !.game.ball.color = IF reached THEN NextColor(@) ELSE @,
               !.phases = Append(@, "switchers")]

\* game.colorSwitchers.forEach(... switcher.used = true)
SwitcherStep(c) ==
  LET sw == c.game.colorSwitchers
  IN [c EXCEPT !.game.colorSwitchers =
                 [i \in 1..Len(sw) |->
                    IF ~sw[i].used /\ checkColorSwitcher(c.game.ball, sw[i])
                    THEN [sw[i] EXCEPT !.used = TRUE] ELSE sw[i]],
               !.phases = Append(@, "switchers")]

\* OnScreen with the comparison reversed
OffScreen(e, cameraY, canvasHeight) ==
  e.y >= cameraY + Px(canvasHeight) + Px(PRUNE_MARGIN)

\* OnScreen without the margin of 200 px
OnScreenNoMargin(e, cameraY, canvasHeight) ==
  e.y < cameraY + Px(canvasHeight)

\* o.y < game.cameraY + canvas.height + 200
OnScreen(e, cameraY, canvasHeight) ==
  e.y < cameraY + Px(canvasHeight) + Px(PRUNE_MARGIN)

PruneStep(c, canvasHeight) ==
  LET Keep(e) == OnScreen(e, c.game.cameraY, canvasHeight)
  IN [c EXCEPT !.game.obstacles = SelectSeq(@, Keep),
               !.game.colorSwitchers = SelectSeq(@, Keep),
               !.game.stars = SelectSeq(@, Keep),
               !.phases = Append(@, "pruning")]

\* BelowBottom without the margin of 50 px
BelowBottomOfViewport(game, canvasHeight) ==
  game.ball.y > game.cameraY + Px(canvasHeight)

\* if (game.ball.y > game.cameraY + canvas.height + 50) game over
BelowBottom(game, canvasHeight) ==
  game.ball.y > game.cameraY + Px(canvasHeight) + Px(BOTTOM_MARGIN)

BoundaryStep(c, canvasHeight) ==
  LET c1 == [c EXCEPT !.phases = Append(@, "boundary")]
  IN IF BelowBottom(c.game, canvasHeight)
     THEN [c1 EXCEPT !.game.status = "gameover",
                     !.out = Append(@, [kind |-> "gameover", score |-> c.game.score]),
                     !.over = TRUE,
                     !.via = "boundary"]
     ELSE c1

\* UntilCollision with the collision loop before the pass loop
UntilCollisionFirst(c, timestamp, dtNum, cv) ==
  LET c3 == CollisionStep(Physics(ApplyPending(c, timestamp), dtNum, cv.h), Px(cv.w) \div 2)
  IN IF c3.over THEN c3 ELSE ScoreStep(c3, timestamp)

\* the part of a tick up to the collision loop
UntilCollision(c, timestamp, dtNum, cv) ==
  CollisionStep(ScoreStep(Physics(ApplyPending(c, timestamp), dtNum, cv.h), timestamp),
                Px(cv.w) \div 2)

\* the part of a tick after the collision loop (not reached after a collision)
AfterCollision(c, cv) ==
  { BoundaryStep(PruneStep(SwitcherStep(g), cv.h), cv.h) :
      g \in GenerationStep(c, Px(cv.w) \div 2) }

\* if (gameStatus === 'playing') { ... }: the contexts one playing tick can leave
PlayingTick(c, timestamp, dtNum, cv) ==
  LET c4 == UntilCollision(c, timestamp, dtNum, cv)
  IN IF c4.over THEN {c4} ELSE AfterCollision(c4, cv)

----------------------------------------------------------------------------
(* State *)

VARIABLES
  screen,          \* ColorSwitchGame: 'start' | 'playing' | 'gameover'
  uiScore,         \* ColorSwitchGame: score
  highScore,       \* ColorSwitchGame: highScore
  isNewHighScore,  \* ColorSwitchGame: isNewHighScore
  isPaused,        \* ColorSwitchGame: isPaused
  gameKey,         \* ColorSwitchGame: gameKey, the key of the GameCanvas instance
  stored,          \* localStorage 'colorSwitchHighScore' (0 when absent)
  mounted,         \* a GameCanvas instance is mounted (screen !== 'start')
  cur,             \* the props the mounted GameCanvas was last rendered with:
                   \* gs = gameStatus, hs = the highScore onGameOver closes over
  canvas,          \* canvas.width, canvas.height (px)
  game,            \* gameStateRef.current
  animationRef,    \* animationRef.current
  lastTime,        \* lastTimeRef.current
  flash,           \* colorChangeFlashRef.current
  pending,         \* pendingColorChangeRef.current: <<>> (null) or <<record>>
  lastSpeed,       \* lastObstacleSpeedRef.current
  idCtr,           \* the next value generateId() returns
  raf,             \* callbacks requested for the next display refresh
  frameQ,          \* callbacks of the current display refresh still to run
  now,             \* timestamp of the current display refresh
  nextRaf,         \* the next id requestAnimationFrame returns
  frames,          \* display refreshes delivered so far
  toggles,         \* pause/resume clicks so far
  rests,           \* refreshes the player let pass without a tap
  out,             \* notifications sent by the last step (onScoreChange, onGameOver)
  tick             \* what the last step did, when it was a gameLoop invocation

parentVars == <<screen, uiScore, highScore, isNewHighScore, isPaused, gameKey, stored>>
canvasVars == <<mounted, cur, canvas, game, animationRef, lastTime, flash, pending,
                lastSpeed, idCtr>>
browserVars == <<raf, frameQ, now, nextRaf, frames>>
vars == <<parentVars, canvasVars, browserVars, toggles, rests, out, tick>>

\* gameStateRef.current === null
NoGame ==
  [ status |-> "none", score |-> 0, highScore |-> 0,
    ball |-> [x |-> 0, y |-> 0, radius |-> BALL_RADIUS, velocity |-> 0, color |-> "cyan"],
    obstacles |-> <<>>, stars |-> <<>>, colorSwitchers |-> <<>>, cameraY |-> 0 ]

\* the record of a step that was no gameLoop invocation
Did(step) ==
  [ step |-> step, ran |-> FALSE, gs |-> "none", dtNum |-> 0, via |-> "none",
    hit |-> <<>>, applied |-> <<>>, passes |-> <<>>, phases |-> <<>>,
    before |-> [velocity |-> 0, idCtr |-> 0, obstacles |-> 0] ]

\* gameStatus={isPaused ? 'paused' : 'playing'} onGameOver={handleGameOver}
RenderedProps == [ gs |-> IF isPaused THEN "paused" ELSE "playing", hs |-> highScore ]

\* a state update made inside a frame callback has not been rendered yet
RenderDue == mounted /\ cur # RenderedProps

\* no handler is running and React has nothing to render: an event can be delivered
Idle == frameQ = <<>> /\ ~RenderDue

Init ==
  /\ screen = "start"
  /\ uiScore = 0
  /\ stored \in StoredScores
  /\ highScore = stored
  /\ isNewHighScore = FALSE
  /\ isPaused = FALSE
  /\ gameKey = 0
  /\ mounted = FALSE
  /\ cur = [gs |-> "playing", hs |-> stored]
  /\ canvas \in Viewports
  /\ game = NoGame
  /\ animationRef = 0
  /\ lastTime = 0
  /\ flash = 0
  /\ pending = <<>>
  /\ lastSpeed = 0
  /\ idCtr = 1
  /\ raf = <<>>
  /\ frameQ = <<>>
  /\ now = 0
  /\ nextRaf = 1
  /\ frames = 0
  /\ toggles = 0
  /\ rests = 0
  /\ out = <<>>
  /\ tick = Did("init")

----------------------------------------------------------------------------
(* Effects of GameCanvas *)

\* cancelAnimationFrame(id)
Cancel(q, id) == SelectSeq(q, LAMBDA cb : cb.id # id)

\* requestAnimationFrame(gameLoop), gameLoop being the callback rendered with props
Request(q, id, inst, props) ==
  Append(q, [id |-> id, inst |-> inst, gs |-> props.gs, hs |-> props.hs])

\* ResetGame remembering the speed of the first obstacle, not of the last
ResetGameFirstSpeed(cv) ==
  \E g \in initGame(cv.w, cv.h, stored, idCtr) :
    /\ game' = g
    /\ lastSpeed' = g.obstacles[1].rotationSpeed
    /\ idCtr' = idCtr + INITIAL_OBSTACLES

\* gameStateRef.current = initGame(...), with lastObstacleSpeedRef set by
\* generateInitialObstacles
ResetGame(cv) ==
  \E g \in initGame(cv.w, cv.h, stored, idCtr) :
    /\ game' = g
    /\ lastSpeed' = g.obstacles[Len(g.obstacles)].rotationSpeed
    /\ idCtr' = idCtr + INITIAL_OBSTACLES

\* The effects "Start game loop" and "Reset game" re-run after a render with
\* new props (gameStatus or gameLoop changed): cleanup of the first, then both.
RunEffects(props) ==
  /\ cur' = props
  /\ IF props.gs = "playing"
     THEN /\ ResetGame(canvas)
          /\ lastTime' = 0
          /\ raf' = Request(Request(Cancel(raf, animationRef), nextRaf, gameKey, props),
                            nextRaf + 1, gameKey, props)
          /\ animationRef' = nextRaf + 1
          /\ nextRaf' = nextRaf + 2
     ELSE /\ raf' = Cancel(raf, animationRef)
          /\ UNCHANGED <<game, lastSpeed, idCtr, lastTime, animationRef, nextRaf>>

----------------------------------------------------------------------------
(* Handlers of ColorSwitchGame *)

\* handleStart, from the start screen or the game-over screen: a new GameCanvas
\* (key = gameKey) is mounted, the previous one, if any, is unmounted.
\* Mount runs resizeCanvas (initGame), "Start game loop" (one request) and
\* "Reset game" (initGame again, a second request); the state of the first
\* initGame is replaced by the second.
Start ==
  /\ Idle
  /\ screen \in {"start", "gameover"}
  /\ gameKey < MaxMounts
  /\ uiScore' = 0
  /\ isNewHighScore' = FALSE
  /\ isPaused' = FALSE
  /\ gameKey' = gameKey + 1
  /\ screen' = "playing"
  /\ mounted' = TRUE
  /\ \E cv \in Viewports : canvas' = cv /\ ResetGame(cv)
  /\ LET props == [gs |-> "playing", hs |-> highScore]
     IN /\ cur' = props
        /\ raf' = Request(Request(IF mounted THEN Cancel(raf, animationRef) ELSE raf,
                                  nextRaf, gameKey + 1, props),
                          nextRaf + 1, gameKey + 1, props)
  /\ animationRef' = nextRaf + 1
  /\ nextRaf' = nextRaf + 2
  /\ lastTime' = 0
  /\ flash' = 0
  /\ pending' = <<>>
  /\ out' = <<>>
  /\ tick' = Did("Start")
  /\ UNCHANGED <<highScore, stored, frameQ, now, frames, toggles, rests>>

\* handleHome, from the game-over screen: GameCanvas is unmounted
Home ==
  /\ Idle
  /\ screen = "gameover"
  /\ screen' = "start"
  /\ mounted' = FALSE
  /\ raf' = Cancel(raf, animationRef)
  /\ out' = <<>>
  /\ tick' = Did("Home")
  /\ UNCHANGED <<uiScore, highScore, isNewHighScore, isPaused, gameKey, stored,
                 cur, canvas, game, animationRef, lastTime, flash, pending, lastSpeed,
                 idCtr, frameQ, now, nextRaf, frames, toggles, rests>>

\* handlePause, from the pause button of GameUI
Pause ==
  /\ Idle
  /\ screen = "playing" /\ ~isPaused
  /\ toggles < MaxToggles
  /\ toggles' = toggles + 1
  /\ isPaused' = TRUE
  /\ RunEffects([gs |-> "paused", hs |-> highScore])
  /\ out' = <<>>
  /\ tick' = Did("Pause")
  /\ UNCHANGED <<screen, uiScore, highScore, isNewHighScore, gameKey, stored,
                 mounted, canvas, flash, pending, frameQ, now, frames, rests>>

\* handleResume, from the pause button or the pause overlay
Resume ==
  /\ Idle
  /\ screen = "playing" /\ isPaused
  /\ toggles < MaxToggles
  /\ toggles' = toggles + 1
  /\ isPaused' = FALSE
  /\ RunEffects([gs |-> "playing", hs |-> highScore])
  /\ out' = <<>>
  /\ tick' = Did("Resume")
  /\ UNCHANGED <<screen, uiScore, highScore, isNewHighScore, gameKey, stored,
                 mounted, canvas, flash, pending, frameQ, now, frames, rests>>

\* React renders the state set by handleGameOver inside a frame callback:
\* handleGameOver, hence gameLoop, is a new function and the effects re-run.
Render ==
  /\ frameQ = <<>>
  /\ RenderDue
  /\ RunEffects(RenderedProps)
  /\ out' = <<>>
  /\ tick' = Did("Render")
  /\ UNCHANGED <<parentVars, mounted, canvas, flash, pending, frameQ, now, frames,
                 toggles, rests>>

----------------------------------------------------------------------------
(* Handlers of GameCanvas *)

\* The browser delivers a display refresh: every callback requested so far is
\* run with the same timestamp.
DeliverFrame ==
  /\ Idle
  /\ raf # <<>>
  /\ \E delta \in FrameDeltas : now' = now + delta
  /\ frameQ' = raf
  /\ raf' = <<>>
  /\ frames' = frames + 1
  /\ out' = <<>>
  /\ tick' = Did("DeliverFrame")
  /\ UNCHANGED <<parentVars, canvasVars, nextRaf, toggles>>

\* the canvas is not covered by an overlay and handleTap would act
TapPossible ==
  /\ mounted /\ screen = "playing" /\ ~isPaused
  /\ game.status # "none" /\ cur.gs = "playing"

\* a tap was delivered since the last display refresh (every tick with
\* deltaTime > 0 leaves a velocity above JUMP_FORCE)
Tapped == game.ball.velocity = Px(JUMP_FORCE)

\* handleTap ignoring the tap while the ball is rising
JumpWhenFalling(g) ==
  IF g.ball.velocity > 0 THEN [g EXCEPT !.ball.velocity = Px(JUMP_FORCE)] ELSE g

\* gameStateRef.current.ball.velocity = JUMP_FORCE
Jump(g) == [g EXCEPT !.ball.velocity = Px(JUMP_FORCE)]

\* handleTap: if (!gameStateRef.current || gameStatus !== 'playing') return;
\* the start, game-over and pause overlays cover the canvas
handleTap ==
  /\ Idle
  /\ TapPossible
  /\ game' = Jump(game)
  /\ out' = <<>>
  /\ tick' = [Did("handleTap") EXCEPT !.before.velocity = game.ball.velocity]
  /\ UNCHANGED <<parentVars, mounted, cur, canvas, animationRef, lastTime, flash,
                 pending, lastSpeed, idCtr, browserVars, toggles, rests>>

\* a display refresh, for a player who lets at most MaxRests refreshes pass
\* without a tap while the canvas takes taps
BeginFrame ==
  /\ frames < MaxFrames
  /\ (TapPossible /\ ~Tapped) => rests < MaxRests
  /\ DeliverFrame
  /\ rests' = IF TapPossible /\ ~Tapped THEN rests + 1 ELSE rests

\* handleScoreChange and handleGameOver applied to the notifications of one
\* callback; hs is the highScore the callback's onGameOver closes over
RECURSIVE Notified(_, _, _)
Notified(p, notes, hs) ==
  IF notes = <<>> THEN p
  ELSE LET n == Head(notes)
           q == IF n.kind = "score" THEN [p EXCEPT !.uiScore = n.score]
                ELSE IF n.score > hs
                     THEN [p EXCEPT !.highScore = n.score, !.isNewHighScore = TRUE,
                                    !.stored = n.score, !.screen = "gameover"]
                     ELSE [p EXCEPT !.screen = "gameover"]
       IN Notified(q, Tail(notes), hs)

\* A frame callback of an unmounted instance: if (!canvasRef.current ...) return
StaleCallback ==
  /\ frameQ # <<>>
  /\ ~(mounted /\ Head(frameQ).inst = gameKey)
  /\ frameQ' = Tail(frameQ)
  /\ out' = <<>>
  /\ tick' = Did("StaleCallback")
  /\ UNCHANGED <<parentVars, canvasVars, raf, now, nextRaf, frames, toggles, rests>>

\* gameLoop(timestamp), run as the frame callback at the head of frameQ
gameLoop ==
  /\ frameQ # <<>>
  /\ mounted /\ Head(frameQ).inst = gameKey
  /\ LET cb == Head(frameQ)
         timestamp == now
         dtNum == IF lastTime # 0 THEN timestamp - lastTime ELSE TICK
         decayed == IF flash > 0 THEN Max(0, flash - Times(FLASH_DECAY, dtNum)) ELSE flash
         c0 == Context(game, pending, decayed, lastSpeed, idCtr)
     IN \E c \in (IF cb.gs = "playing" THEN PlayingTick(c0, timestamp, dtNum, canvas)
                  ELSE {c0}) :
          /\ lastTime' = timestamp
          /\ game' = c.game
          /\ pending' = c.pending
          /\ flash' = c.flash
          /\ lastSpeed' = c.lastSpeed
          /\ idCtr' = c.idCtr
          /\ out' = c.out
          /\ LET p == Notified([uiScore |-> uiScore, highScore |-> highScore,
                                isNewHighScore |-> isNewHighScore, stored |-> stored,
                                screen |-> screen], c.out, cb.hs)
             IN /\ uiScore' = p.uiScore
                /\ highScore' = p.highScore
                /\ isNewHighScore' = p.isNewHighScore
                /\ stored' = p.stored
                /\ screen' = p.screen
          /\ tick' = [ step |-> "gameLoop", ran |-> cb.gs = "playing", gs |-> cb.gs,
                       dtNum |-> dtNum,
                       via |-> c.via, hit |-> c.hit, applied |-> c.applied,
                       passes |-> c.passes, phases |-> c.phases,
                       before |-> [velocity |-> game.ball.velocity, idCtr |-> idCtr,
                                   obstacles |-> Len(game.obstacles)] ]
          /\ frameQ' = Tail(frameQ)
          \* return after a game over; otherwise draw, then
          \* if (game.status === 'playing') requestAnimationFrame(gameLoop)
          /\ IF ~c.over /\ c.game.status = "playing"
             THEN /\ raf' = Append(raf, [cb EXCEPT !.id = nextRaf])
                  /\ animationRef' = nextRaf
                  /\ nextRaf' = nextRaf + 1
             ELSE UNCHANGED <<raf, animationRef, nextRaf>>
          /\ UNCHANGED <<isPaused, gameKey, mounted, cur, canvas, now, frames, toggles, rests>>

Next ==
  \/ Start
  \/ Home
  \/ Pause
  \/ Resume
  \/ Render
  \/ handleTap
  \/ BeginFrame
  \/ StaleCallback
  \/ gameLoop

Spec == Init /\ [][Next]_vars

----------------------------------------------------------------------------
(* A session in progress *)
(* handleResume re-runs the "Reset game" effect, and initGame leaves       *)
(* pendingColorChangeRef alone: a change scheduled before a pause is still *)
(* pending in the new game.  The score of the new game reaches 2 before    *)
(* that change is due only when two pass lines, 0.4 * canvas.height + 460  *)
(* px, are climbed within 1000 ms, which takes some 55 ticks of 16.67 ms   *)
(* with a tap in each on a viewport under 60 px: out of reach of the       *)
(* refreshes counted by MaxFrames.  Such sessions are entered here in the  *)
(* middle instead, at a refresh that finds the ball just below a pass line.*)

MaxPassed == 2                          \* obstacles the session has passed so far
MidViewports == {[w |-> 400, h |-> 40]} \* a viewport a resumed session can climb in time
MidStart == Ms(5000)                    \* timestamp of the refresh that is delivered
MidChains == {2, 3}                     \* frame loops alive: two per reset, one left by a pause
MidCameraLag == Px(86)                  \* the camera trails a ball climbing 8.65 px per tick
MidBelowLine == Px(5)                   \* the ball is this far below the pass line
PendingAhead == {0, TICK}               \* time until the pending change is due
MidTurns == 0..3                        \* quarter turns the two nearest obstacles have made

\* pendingColorChangeRef.current at the refresh
MidPending ==
  {<<>>} \cup { <<[timestamp |-> MidStart + d, newColor |-> COLOR_ORDER[n]]>> :
                  d \in PendingAhead, n \in 1..Len(COLOR_ORDER) }

\* the game of initGame after `k` passes, the ball tapped below the next pass
\* line, the obstacles left behind pruned, the obstacle ahead turned by t1 and
\* the one after it by t2 quarter turns
MidGame(g, k, color, t1, t2, cv) ==
  LET y == g.obstacles[k + 1].y - Px(OBSTACLE_RADIUS) - Px(PASS_MARGIN) + MidBelowLine
      cam == y - (Px(cv.h) * 7) \div 10 + MidCameraLag
      Keep(o) == OnScreen(o, cam, cv.h)
  IN [g EXCEPT !.score = k,
               !.ball.y = y,
               !.ball.velocity = Px(JUMP_FORCE),
               !.ball.color = color,
               !.cameraY = cam,
               !.obstacles = SelectSeq(
                  [i \in 1..Len(@) |->
                     [@[i] EXCEPT !.passed = i <= k,
                                  !.rotation = @ + HalfPi * (IF i = k + 1 THEN t1
                                                             ELSE IF i = k + 2 THEN t2
                                                             ELSE 0)]],
                  Keep)]

\* the collision loop of the tick before found nothing
Survived(g, cv) ==
  \A i \in 1..Len(g.obstacles) :
    g.obstacles[i].passed \/ ~checkCollision(g.ball, g.obstacles[i], Px(cv.w) \div 2)

InitMidSession ==
  /\ screen = "playing"
  /\ stored \in StoredScores
  /\ highScore = stored
  /\ isNewHighScore = FALSE
  /\ isPaused = FALSE
  /\ gameKey = 1
  /\ mounted = TRUE
  /\ cur = [gs |-> "playing", hs |-> stored]
  /\ canvas \in MidViewports
  /\ idCtr = 2 * INITIAL_OBSTACLES + 1
  /\ \E g \in initGame(canvas.w, canvas.h, stored, INITIAL_OBSTACLES + 1),
        k \in 0..MaxPassed, n \in 1..Len(COLOR_ORDER), t1 \in MidTurns, t2 \in MidTurns :
       /\ game = MidGame(g, k, COLOR_ORDER[n], t1, t2, canvas)
       /\ Survived(game, canvas)
       /\ uiScore = k
       /\ lastSpeed = g.obstacles[Len(g.obstacles)].rotationSpeed
  /\ pending \in MidPending
  /\ flash = 0
  /\ now = MidStart
  /\ lastTime = MidStart - TICK
  /\ \E chains \in MidChains :
       /\ frameQ = [i \in 1..chains |-> [id |-> i, inst |-> gameKey, gs |-> "playing",
                                         hs |-> stored]]
       /\ animationRef = chains
       /\ nextRaf = chains + 1
  /\ raf = <<>>
  /\ frames = 1
  /\ toggles = MaxToggles
  /\ rests = 0
  /\ out = <<>>
  /\ tick = Did("DeliverFrame")

NextMidSession == gameLoop

SpecMidSession == InitMidSession /\ [][NextMidSession]_vars

----------------------------------------------------------------------------
(* A session at its first color switcher *)
(* The first switcher lies 150 px above the fifth obstacle, some 1350 px   *)
(* above the start: with refreshes 250 ms apart the ball steps over it or  *)
(* meets it in a refresh that ends in the collision loop.  The session is  *)
(* entered here at a refresh 16.67 ms after the last, the ball below that  *)
(* switcher and out of its reach, in the top band of the fifth obstacle.   *)
(* By then the generator has fired three times, each time on a list of     *)
(* four obstacles (the lowest one pruned in between), and the four         *)
(* obstacles below have been passed.                                       *)

GeneratorRuns == 3                      \* firings of the generator so far
PickupBelow == Px(35)                   \* the ball is this far below the switcher

\* the contexts after `n` more firings of the generator, the lowest obstacle
\* pruned before each
RECURSIVE AfterGenerations(_, _, _)
AfterGenerations(c, centerX, n) ==
  IF n = 0 THEN {c}
  ELSE LET c1 == [c EXCEPT !.game.obstacles = Tail(@)]
       IN UNION { AfterGenerations(Generate(c1, centerX, s, rot, sd), centerX, n - 1) :
                    s \in SpeedLoop(Len(c1.game.obstacles), c1.lastSpeed, 0),
                    rot \in RotDraws(Len(c1.game.obstacles)), sd \in StarDraws }

\* the game of context c with the ball tapped below the first switcher, the
\* obstacles below the ball passed, the one around it turned by t quarter
\* turns, and what the camera has left behind pruned
PickupGame(c, color, t, cv) ==
  LET y == c.game.colorSwitchers[1].y + PickupBelow
      cam == y - (Px(cv.h) * 7) \div 10 + MidCameraLag
      Keep(o) == OnScreen(o, cam, cv.h)
      turned == [i \in 1..Len(c.game.obstacles) |->
                   LET o == c.game.obstacles[i]
                       below == y < o.y - Px(o.radius) - Px(PASS_MARGIN)
                   IN [o EXCEPT !.passed = below,
                                !.rotation = IF below \/ y < o.y - Px(2 * o.radius)
                                             THEN @ ELSE @ + HalfPi * t]]
  IN [c.game EXCEPT !.score = Len(SelectSeq(turned, LAMBDA o : o.passed))
                              + INITIAL_OBSTACLES + GeneratorRuns - Len(turned),
                    !.ball.y = y,
                    !.ball.velocity = Px(JUMP_FORCE),
                    !.ball.color = color,
                    !.cameraY = cam,
                    !.obstacles = SelectSeq(turned, Keep),
                    !.colorSwitchers = SelectSeq(@, Keep),
                    !.stars = SelectSeq(@, Keep)]

InitPickups ==
  /\ screen = "playing"
  /\ stored \in StoredScores
  /\ highScore = stored
  /\ isNewHighScore = FALSE
  /\ isPaused = FALSE
  /\ gameKey = 1
  /\ mounted = TRUE
  /\ cur = [gs |-> "playing", hs |-> stored]
  /\ canvas \in Viewports
  /\ \E g \in initGame(canvas.w, canvas.h, stored, INITIAL_OBSTACLES + 1),
        n \in 1..Len(COLOR_ORDER), t \in MidTurns :
       \E c \in AfterGenerations(
                  Context(g, <<>>, 0, g.obstacles[Len(g.obstacles)].rotationSpeed,
                          2 * INITIAL_OBSTACLES + 1),
                  Px(canvas.w) \div 2, GeneratorRuns) :
         /\ game = PickupGame(c, COLOR_ORDER[n], t, canvas)
         /\ Survived(game, canvas)
         /\ uiScore = game.score
         /\ lastSpeed = c.lastSpeed
         /\ idCtr = c.idCtr
  /\ pending \in MidPending
  /\ flash = 0
  /\ now = MidStart
  /\ lastTime = MidStart - TICK
  /\ \E chains \in MidChains :
       /\ frameQ = [i \in 1..chains |-> [id |-> i, inst |-> gameKey, gs |-> "playing",
                                         hs |-> stored]]
       /\ animationRef = chains
       /\ nextRaf = chains + 1
  /\ raf = <<>>
  /\ frames = 1
  /\ toggles = MaxToggles
  /\ rests = 0
  /\ out = <<>>
  /\ tick = Did("DeliverFrame")

NextPickups == gameLoop

SpecPickups == InitPickups /\ [][NextPickups]_vars

----------------------------------------------------------------------------
(* createObstacle on its own *)
(* The rotation speed of an obstacle depends on its index, on the speed of  *)
(* the obstacle created before it and on two random draws per attempt.  The *)
(* sessions above draw one direction and one factor; here createObstacle is *)
(* called in a row, as generateInitialObstacles and the generator call it,  *)
(* with both directions and three factors, for every index up to MaxIndex.  *)

MaxIndex == 6                          \* greatest index passed to createObstacle
SampleDirDraws == {250, 750}           \* Math.random() > 0.5
SampleFactorDraws == {0, 500, 999}     \* 0.6 + Math.random()

\* newObstacle = createObstacle(.., index, lastObstacleSpeedRef.current);
\* lastObstacleSpeedRef.current = newObstacle.rotationSpeed
CallCreateObstacle ==
  /\ ~mounted
  /\ \E index \in 0..MaxIndex :
       \E x \in SpeedSamples(index, lastSpeed, 0, SampleDirDraws, SampleFactorDraws) :
         /\ lastSpeed' = x.rotationSpeed
         /\ tick' = [ step |-> "createObstacle", index |-> index,
                      prevSpeed |-> lastSpeed, rotationSpeed |-> x.rotationSpeed,
                      attempts |-> x.attempts ]
  /\ UNCHANGED <<parentVars, mounted, cur, canvas, game, animationRef, lastTime, flash,
                 pending, idCtr, browserVars, toggles, rests, out>>

NextCalls == CallCreateObstacle

SpecCalls == Init /\ [][NextCalls]_vars

----------------------------------------------------------------------------
(* checkCollision on its own *)
(* In a session the ball meets an obstacle at the few positions, colors   *)
(* and rotations its draws lead to.  Here checkCollision is called with   *)
(* the ball on either axis through the obstacle's centre, at distances    *)
(* around both radii of the band, in every color, and with the obstacle   *)
(* of every type turned by any multiple of an eighth of a turn, a little  *)
(* less and a little more, forwards and backwards.                        *)

MaxEighths == 16                        \* eighths of a turn the obstacle has made, either way
BandViewports == {[w |-> 400, h |-> 180]}
BandIndices == 0..2                     \* createObstacle index: dotCircle, halfRing, ring
BandDistances ==                        \* |ball - centre| in 1/100 px
  {0, 10499, 10500, 10501, 11099, 11100, 11101, 14000,
   16899, 16900, 16901, 17499, 17500, 17501, 30000}
BandDirections == {<<1, 0>>, <<0, 1>>, <<-1, 0>>, <<0, -1>>}
BandSkews == {-1, 0, 1}                 \* 1/100000 rad off the multiple of an eighth

BandRotations ==
  {(k * TwoPi) \div 8 + e : k \in (0 - MaxEighths)..MaxEighths, e \in BandSkews}

\* checkCollision(game.ball, obstacle, centerX) as the collision loop calls it
CallCheckCollision ==
  /\ ~mounted
  /\ tick.step # "checkCollision"
  /\ \E cv \in BandViewports, g \in initGame(400, 180, stored, idCtr),
        index \in BandIndices, rotation \in BandRotations,
        d \in BandDistances, dir \in BandDirections, n \in 1..Len(COLOR_ORDER) :
       LET cx == Px(cv.w) \div 2
           obstacle == [g.obstacles[index + 1] EXCEPT !.rotation = rotation]
           ball == [g.ball EXCEPT !.x = cx + dir[1] * d,
                                  !.y = obstacle.y + dir[2] * d,
                                  !.color = COLOR_ORDER[n]]
       IN tick' = [ step |-> "checkCollision", ball |-> ball, obstacle |-> obstacle,
                    centerX |-> cx, result |-> checkCollision(ball, obstacle, cx) ]
  /\ UNCHANGED <<parentVars, canvasVars, browserVars, toggles, rests, out>>

NextBand == CallCheckCollision

SpecBand == Init /\ [][NextBand]_vars

----------------------------------------------------------------------------
(* A player who may let every refresh pass *)
(* The ball leaves the bottom of the viewport only after several refreshes *)
(* without a tap, more than MaxRests allows.  Here the player is free to   *)
(* tap or not before each of the first MaxFallFrames refreshes.            *)

MaxFallFrames == 5        \* display refreshes delivered in one behaviour

FreeFrame ==
  /\ frames < MaxFallFrames
  /\ DeliverFrame
  /\ rests' = rests

NextFall ==
  \/ Start
  \/ handleTap
  \/ FreeFrame
  \/ gameLoop

SpecFall == Init /\ [][NextFall]_vars

----------------------------------------------------------------------------
(* A window that is resized *)
(* The sessions above keep the viewport they were mounted with.  Here the  *)
(* window may change between the widths of ResizeViewports at any time     *)
(* between two refreshes; the player is the one of SpecFall.               *)

ResizeViewports == {[w |-> 400, h |-> 180], [w |-> 800, h |-> 180], [w |-> 400, h |-> 100]}

\* resizeCanvas, the listener of the window's 'resize' event
resizeCanvas ==
  /\ mounted
  /\ Idle
  /\ \E cv \in ResizeViewports \ {canvas} :
       /\ canvas' = cv
       /\ IF game.status # "playing"
          THEN ResetGame(cv)
          ELSE UNCHANGED <<game, lastSpeed, idCtr>>
  /\ out' = <<>>
  /\ tick' = Did("resizeCanvas")
  /\ UNCHANGED <<parentVars, mounted, cur, animationRef, lastTime, flash, pending,
                 browserVars, toggles, rests>>

NextResize ==
  \/ Start
  \/ handleTap
  \/ FreeFrame
  \/ gameLoop
  \/ resizeCanvas

SpecResize == Init /\ [][NextResize]_vars

----------------------------------------------------------------------------
(* A player who stops tapping *)
(* The player taps freely before the first MaxActiveFrames refreshes and   *)
(* never afterwards; pausing, resuming and restarting stay possible.  The  *)
(* browser keeps delivering refreshes and running the requested callbacks. *)

MaxActiveFrames == 6      \* refreshes before which the player still taps
MaxQuietFrames == 40      \* display refreshes delivered in one behaviour

\* the player has let go of the screen for good
Quiet == frames >= MaxActiveFrames

ActiveTap ==
  /\ ~Quiet
  /\ handleTap

QuietFrame ==
  /\ frames < MaxQuietFrames
  /\ DeliverFrame
  /\ rests' = rests

NextQuiet ==
  \/ Start
  \/ Pause
  \/ Resume
  \/ Render
  \/ ActiveTap
  \/ QuietFrame
  \/ StaleCallback
  \/ gameLoop

\* requestAnimationFrame: the browser delivers every refresh and runs every
\* callback it was asked for; React renders every state change.  A callback
\* (gameLoop or StaleCallback) can run exactly when frameQ is not empty, so
\* weak fairness of the callbacks says that the queue is emptied again and
\* again.
FairQuiet ==
  /\ WF_vars(QuietFrame)
  /\ WF_vars(Render)
  /\ []<>(frameQ = <<>>)

SpecQuiet == Init /\ [][NextQuiet]_vars /\ FairQuiet

----------------------------------------------------------------------------
(* A player who keeps playing *)
(* The sessions of Spec, with a browser that delivers every refresh and    *)
(* runs every callback it was asked for, React rendering every state       *)
(* change, and a player who taps again when MaxRests refreshes were left   *)
(* to pass and pauses only while a colour change is pending.  A callback  *)
(* (gameLoop or StaleCallback) can run exactly when frameQ is not empty,   *)
(* so weak fairness of the callbacks says that the queue is emptied again  *)
(* and again.                                                              *)

\* the pause button is used while a colour change is pending
PauseWhilePending ==
  /\ pending # <<>>
  /\ Pause

NextPlaying ==
  \/ Start
  \/ Home
  \/ PauseWhilePending
  \/ Resume
  \/ Render
  \/ handleTap
  \/ BeginFrame
  \/ StaleCallback
  \/ gameLoop

FairPlaying ==
  /\ WF_vars(BeginFrame)
  /\ WF_vars(handleTap)
  /\ WF_vars(Render)
  /\ []<>(frameQ = <<>>)

SpecPlaying == Init /\ [][NextPlaying]_vars /\ FairPlaying

----------------------------------------------------------------------------
(* A tall window that is resized *)
(* The game of a window 1000 px high starts with the ball at y = 700 and   *)
(* its first obstacle at y = 300.  The behaviours start in the state that  *)
(* handleStart leaves in such a window; the window may then be resized as  *)
(* in SpecResize.                                                          *)

TallViewports == {[w |-> 400, h |-> 1000]}

InitTall ==
  /\ screen = "playing"
  /\ uiScore = 0
  /\ stored \in StoredScores
  /\ highScore = stored
  /\ isNewHighScore = FALSE
  /\ isPaused = FALSE
  /\ gameKey = 1
  /\ mounted = TRUE
  /\ cur = [gs |-> "playing", hs |-> stored]
  /\ canvas \in TallViewports
  /\ game \in initGame(canvas.w, canvas.h, stored, 1)
  /\ lastSpeed = game.obstacles[Len(game.obstacles)].rotationSpeed
  /\ idCtr = 1 + INITIAL_OBSTACLES
  /\ animationRef = 2
  /\ lastTime = 0
  /\ flash = 0
  /\ pending = <<>>
  /\ raf = Request(Request(<<>>, 1, gameKey, cur), 2, gameKey, cur)
  /\ frameQ = <<>>
  /\ now = 0
  /\ nextRaf = 3
  /\ frames = 0
  /\ toggles = 0
  /\ rests = 0
  /\ out = <<>>
  /\ tick = Did("Start")

NextTall ==
  \/ handleTap
  \/ FreeFrame
  \/ gameLoop
  \/ resizeCanvas

SpecTall == InitTall /\ [][NextTall]_vars

----------------------------------------------------------------------------
(* Properties *)

centerX == Px(canvas.w) \div 2

Ids(obstacles) == {obstacles[i].id : i \in 1..Len(obstacles)}

\* the ball is in the band of obstacle o on a segment of another color
WrongSegment(ball, o) ==
  InBand(ball, o, centerX) /\ ball.color # BandColor(ball, o, centerX)

\* C1: a tick never ends in the collision game over because of an obstacle
\* whose passed flag is true when the collision loop tests it, also not because
\* of one the scoring step of the same tick has just marked.
C1_NoCollisionWithPassed ==
  tick.via = "collision" =>
    /\ ~tick.hit[1].passed
    /\ \A k \in 1..Len(tick.passes) : tick.passes[k] # tick.hit[1].id

\* a tick marked an obstacle passed while the ball was in its band on a segment
\* of another color, and went on
C1_Witness ==
  /\ tick.ran /\ tick.via = "none" /\ game.status = "playing"
  /\ \E i \in 1..Len(game.obstacles) :
       /\ game.obstacles[i].passed
       /\ WrongSegment(game.ball, game.obstacles[i])
       /\ \E k \in 1..Len(tick.passes) : tick.passes[k] = game.obstacles[i].id

\* the obstacles of g whose passed flag is false in g and true in h
Turned(g, h) ==
  { i \in 1..Len(g.obstacles) :
      /\ ~g.obstacles[i].passed
      /\ \E j \in 1..Len(h.obstacles) :
           h.obstacles[j].id = g.obstacles[i].id /\ h.obstacles[j].passed }

ScoreNotes(notes) == SelectSeq(notes, LAMBDA n : n.kind = "score")

C3_PassedOnceForGood ==
  [][ /\ \A j \in 1..Len(game'.obstacles) :
           game'.obstacles[j].id \notin Ids(game.obstacles) => ~game'.obstacles[j].passed
      /\ \A i \in 1..Len(game.obstacles), j \in 1..Len(game'.obstacles) :
           (game.obstacles[i].id = game'.obstacles[j].id /\ game.obstacles[i].passed)
             => game'.obstacles[j].passed
      /\ \A k \in 1..Len(tick'.passes) :
           /\ \E i \in 1..Len(game.obstacles) :
                game.obstacles[i].id = tick'.passes[k] /\ ~game.obstacles[i].passed
           /\ \A m \in 1..Len(tick'.passes) : tick'.passes[m] = tick'.passes[k] => m = k ]_vars

\* a tick ran with the ball above the pass line of a passed obstacle and did
\* not score it again
C3_Witness ==
  /\ tick.ran /\ tick.passes = <<>>
  /\ \E i \in 1..Len(game.obstacles) :
       game.obstacles[i].passed /\ HasPassed(game.ball, game.obstacles[i])

\* C4: once game.status is 'gameover' no gameLoop invocation changes the game
\* state of that GameCanvas instance again.
C4_GameOverIsTerminal ==
  [][ (game.status = "gameover" /\ tick'.step = "gameLoop") => game' = game ]_vars

\* C5: a tick of a playing game ends in the collision game over exactly when
\* the ball is in the band of a not yet passed obstacle on a segment of another
\* color; it then sets status 'gameover' and calls onGameOver with the score
\* reached; with equal colors the game goes on.
C5_CollisionIffColorDiffers ==
  [][ (tick'.step = "gameLoop" /\ tick'.ran /\ game.status = "playing") =>
        /\ (tick'.via = "collision") <=>
              (\E i \in 1..Len(game'.obstacles) :
                  ~game'.obstacles[i].passed /\ WrongSegment(game'.ball, game'.obstacles[i]))
        /\ tick'.via = "collision" =>
              /\ ~tick'.hit[1].passed /\ WrongSegment(game'.ball, tick'.hit[1])
              /\ game'.status = "gameover"
              /\ out' # <<>>
              /\ out'[Len(out')] = [kind |-> "gameover", score |-> game'.score]
        /\ tick'.via = "none" =>
              /\ game'.status = "playing"
              /\ \A n \in 1..Len(out') : out'[n].kind # "gameover" ]_vars

\* a tick found the ball in the band of a not yet passed obstacle on a segment
\* of the ball's color, and the game went on
C5_Witness ==
  /\ tick.ran /\ tick.via = "none" /\ game.status = "playing"
  /\ \E i \in 1..Len(game.obstacles) :
       /\ ~game.obstacles[i].passed
       /\ InBand(game.ball, game.obstacles[i], centerX)
       /\ game.ball.color = BandColor(game.ball, game.obstacles[i], centerX)

\* C6: pendingColorChangeRef holds at most one deferred change; a change that
\* is pending and not yet due survives the tick unchanged, also a tick whose
\* passes bring the score to a multiple of 2: nothing is queued or replaced.
C6_PendingIsKept ==
  [][ tick'.step = "gameLoop" =>
        /\ Len(pending') <= 1
        /\ (pending # <<>> /\ tick'.applied = <<>>) => pending' = pending ]_vars

\* a pass brought the score to a multiple of 2 while a change was pending: the
\* pending change is the old one, not one scheduled by this tick
C6_Witness ==
  /\ tick.ran /\ tick.passes # <<>> /\ tick.applied = <<>>
  /\ game.score % 2 = 0
  /\ pending # <<>>
  /\ pending[1].timestamp < now + Ms(COLOR_DELAY)

\* the palette order, written out
Successor(color) ==
  CASE color = "cyan" -> "purple"
    [] color = "purple" -> "pink"
    [] color = "pink" -> "yellow"
    [] color = "yellow" -> "cyan"

C8_AppliedWhenDue ==
  [][ (tick'.step = "gameLoop" /\ tick'.ran /\ pending # <<>>) =>
        IF now < pending[1].timestamp
        THEN /\ tick'.applied = <<>>
             /\ game'.ball.color = game.ball.color
             /\ pending' = pending
        ELSE /\ tick'.applied = <<[from |-> game.ball.color, to |-> pending[1].newColor,
                                   due |-> pending[1].timestamp]>>
             /\ game'.ball.color = pending[1].newColor
             /\ flash' = FLASH_FULL
             /\ tick'.passes = <<>> => pending' = <<>>
             /\ tick'.phases[1] = "deferred" /\ tick'.phases[2] = "physics" ]_vars

\* a tick whose timestamp equals the target applied the change
C8_Witness ==
  /\ tick.ran /\ tick.applied # <<>>
  /\ tick.applied[1].due = now
  /\ game.ball.color = tick.applied[1].to
  /\ flash = FLASH_FULL
  /\ pending = <<>>

\* C9: the ball's color is one of the four palette colors, and a deferred
\* change moves it exactly one step forward in COLOR_ORDER, also after
\* initGame has re-initialised the game.
C9_OneStepForward ==
  /\ game.ball.color \in {COLOR_ORDER[n] : n \in 1..Len(COLOR_ORDER)}
  /\ tick.applied # <<>> => tick.applied[1].to = Successor(tick.applied[1].from)

PhasesToCollision == <<"deferred", "physics", "score", "collision">>

PhasesOfTick == PhasesToCollision \o <<"generation", "switchers", "pruning", "boundary">>

\* C10: a playing tick runs deferred color change, physics (with camera and
\* rotation), pass loop, collision loop, generation, switchers, pruning and
\* boundary check in this order; a collision ends the tick after the collision
\* loop, so nothing is generated or pruned in it; an obstacle above whose pass
\* line the ball is after the physics of the tick is never the one collided with.
C10_TickOrder ==
  [][ (tick'.step = "gameLoop" /\ tick'.ran) =>
        /\ tick'.phases = IF tick'.via = "collision" THEN PhasesToCollision ELSE PhasesOfTick
        /\ tick'.via = "collision" =>
             /\ [i \in 1..Len(game'.obstacles) |-> game'.obstacles[i].id]
                  = [i \in 1..Len(game.obstacles) |-> game.obstacles[i].id]
             /\ game'.colorSwitchers = game.colorSwitchers
             /\ game'.stars = game.stars
             /\ idCtr' = idCtr
             /\ ~HasPassed(game'.ball, tick'.hit[1]) ]_vars

\* a collision ended a tick while the list held an obstacle
\* that the pruning step would have removed
C10_Witness ==
  /\ tick.ran /\ tick.via = "collision"
  /\ \E i \in 1..Len(game.obstacles) : ~OnScreen(game.obstacles[i], game.cameraY, canvas.h)

\* C11: handleTap sets ball.velocity to JUMP_FORCE whatever it was, on every
\* tap, and leaves the rest of the game state, the pending color change, the
\* flash, the frame loop and the parent's state alone.
C11_TapSetsJumpForce ==
  [][ tick'.step = "handleTap" =>
        /\ game'.ball.velocity = Px(JUMP_FORCE)
        /\ game' = [game EXCEPT !.ball.velocity = Px(JUMP_FORCE)]
        /\ UNCHANGED <<pending, flash, lastTime, lastSpeed, idCtr, animationRef,
                       parentVars, browserVars>>
        /\ out' = <<>> ]_vars

\* a tap took a falling ball to JUMP_FORCE
C11_Witness ==
  /\ tick.step = "handleTap"
  /\ tick.before.velocity > 0
  /\ game.ball.velocity = Px(JUMP_FORCE)

\* C12: every playing tick leaves the ball with a velocity strictly greater
\* than the one it found, namely old velocity + GRAVITY * deltaTime, and moves
\* y by the new velocity * deltaTime.
C12_GravityRaisesVelocity ==
  [][ (tick'.step = "gameLoop" /\ tick'.ran) =>
        /\ game'.ball.velocity > game.ball.velocity
        /\ game'.ball.velocity = game.ball.velocity + Times(GRAVITY, tick'.dtNum)
        /\ game'.ball.y = game.ball.y + Times(game'.ball.velocity, tick'.dtNum) ]_vars

GenerationIndex(o) == ((Px(canvas.h) * 3) \div 10 - o.y) \div Px(OBSTACLE_GAP)

\* C14: the k-th obstacle generated in a session is a dotCircle when k is a
\* multiple of 5, otherwise a ring for even k and a halfRing for odd k.
C14_TypeFollowsGenerationIndex ==
  \A i \in 1..Len(game.obstacles) :
    LET k == GenerationIndex(game.obstacles[i])
    IN game.obstacles[i].type =
         (IF k % 5 = 0 THEN "dotCircle" ELSE IF k % 2 = 0 THEN "ring" ELSE "halfRing")

\* C15: a playing tick that detects no collision ends in the boundary game
\* over exactly when, after physics, camera update and pruning, ball.y is
\* greater than cameraY + canvas.height + 50; it then sets status 'gameover'
\* and calls onGameOver with the score; otherwise it raises no game over.
C15_BoundaryGameOver ==
  [][ (tick'.step = "gameLoop" /\ tick'.ran /\ tick'.via # "collision") =>
        LET below == game'.ball.y > game'.cameraY + Px(canvas.h) + Px(BOTTOM_MARGIN)
        IN /\ (tick'.via = "boundary") <=> below
           /\ below => /\ game'.status = "gameover"
                       /\ out' # <<>>
                       /\ out'[Len(out')] = [kind |-> "gameover", score |-> game'.score]
                       /\ screen' = "gameover"
                       /\ tick'.phases = PhasesOfTick
           /\ ~below => /\ game'.status = game.status
                        /\ \A n \in 1..Len(out') : out'[n].kind # "gameover" ]_vars

\* the ball fell below the bottom margin of a playing game and the tick ended
\* the game through the boundary check
C15_Witness ==
  /\ tick.ran /\ tick.via = "boundary" /\ tick.dtNum > 0
  /\ game.status = "gameover" /\ screen = "gameover"
  /\ game.ball.y > game.cameraY + Px(canvas.h) + Px(BOTTOM_MARGIN)
  /\ out = <<[kind |-> "gameover", score |-> game.score]>>

\* C16: while gameStatus is 'paused' no gameLoop invocation changes the game
\* state or calls onScoreChange or onGameOver, whenever its frame callback was
\* requested.
C16_PausedIsFrozen ==
  [][ (isPaused /\ cur.gs = "paused" /\ tick'.step = "gameLoop") =>
        (game' = game /\ out' = <<>>) ]_vars

\* C17: handleResume continues the session that was paused: the game state
\* (score, ball, obstacles, stars, color switchers, camera) is not replaced.
C17_ResumeKeepsSession ==
  [][ tick'.step = "Resume" =>
        /\ game'.score = game.score
        /\ game'.ball = game.ball
        /\ game'.cameraY = game.cameraY
        /\ [i \in 1..Len(game'.obstacles) |-> game'.obstacles[i].y]
             = [i \in 1..Len(game.obstacles) |-> game.obstacles[i].y]
        /\ game'.stars = game.stars
        /\ game'.colorSwitchers = game.colorSwitchers ]_vars

\* the callbacks of the mounted GameCanvas instance in a queue of callbacks
OwnCallbacks(q) == SelectSeq(q, LAMBDA cb : cb.inst = gameKey)

\* C18: localStorage is written only by a game-over notification whose score
\* is greater than the best score known so far, so every write raises the
\* persisted value; the persisted value never decreases.
C18_WriteRaisesBest ==
  [][ /\ stored' >= stored
      /\ tick'.step = "gameLoop" =>
           \A n \in 1..Len(out') :
             (out'[n].kind = "gameover" /\ out'[n].score > Head(frameQ).hs)
               => out'[n].score > stored ]_vars

\* C19: at most one gameLoop callback of the mounted GameCanvas is pending in
\* requestAnimationFrame, and at most one runs per display refresh.
C19_SingleFrameLoop ==
  mounted => /\ Len(OwnCallbacks(raf)) <= 1
             /\ Len(OwnCallbacks(frameQ)) <= 1

\* the elements of `after` whose id is not in `before`
Added(before, after) == SelectSeq(after, LAMBDA e : e.id \notin Ids(before))

\* C20: in a playing tick that reaches the generator, it fires exactly when
\* ball.y < (least y of the obstacles) + 2 * OBSTACLE_GAP; it then adds one
\* obstacle at least y - OBSTACLE_GAP, one color switcher at least y -
\* OBSTACLE_GAP / 2 and at most one star at least y - OBSTACLE_GAP / 2 - 40;
\* when it does not fire the three collections gain nothing.
C20_GeneratorAddsOneRow ==
  [][ (tick'.step = "gameLoop" /\ tick'.ran /\ tick'.via # "collision"
         /\ game.obstacles # <<>>) =>
        LET top == CHOOSE y \in {game.obstacles[i].y : i \in 1..Len(game.obstacles)} :
                     \A i \in 1..Len(game.obstacles) : y <= game.obstacles[i].y
            fires == game'.ball.y < top + 2 * Px(OBSTACLE_GAP)
            obstacles == Added(game.obstacles, game'.obstacles)
            switchers == Added(game.colorSwitchers, game'.colorSwitchers)
            stars == Added(game.stars, game'.stars)
        IN IF fires
           THEN /\ Len(obstacles) = 1
                /\ obstacles[1].y = top - Px(OBSTACLE_GAP)
                /\ game'.obstacles[Len(game'.obstacles)] = obstacles[1]
                /\ Len(switchers) = 1
                /\ switchers[1].y = top - Px(OBSTACLE_GAP) \div 2
                /\ Len(stars) <= 1
                /\ \A n \in 1..Len(stars) : stars[n].y = top - Px(OBSTACLE_GAP) \div 2 - Px(40)
           ELSE obstacles = <<>> /\ switchers = <<>> /\ stars = <<>> ]_vars

\* a tick generated an obstacle, a color switcher and a star
C20_Witness ==
  /\ tick.ran /\ tick.via = "none"
  /\ idCtr = tick.before.idCtr + 3
  /\ game.obstacles[Len(game.obstacles)].id = tick.before.idCtr
  /\ \E n \in 1..Len(game.colorSwitchers) : game.colorSwitchers[n].id = tick.before.idCtr + 1
  /\ \E n \in 1..Len(game.stars) : game.stars[n].id = tick.before.idCtr + 2

\* the elements of `before` that are in `after`, in the order of `before`
Kept(before, after) == SelectSeq(before, LAMBDA e : e.id \in Ids(after))

\* the ids along a sequence of obstacles, stars or color switchers
IdsAlong(q) == [i \in 1..Len(q) |-> q[i].id]

C26_ObstaclesEvenlySpaced ==
  (mounted /\ game.status = "playing") =>
    /\ game.obstacles # <<>>
    /\ \A i \in 1..(Len(game.obstacles) - 1) :
         /\ game.obstacles[i + 1].y < game.obstacles[i].y
         /\ game.obstacles[i].y - game.obstacles[i + 1].y = Px(300)
    /\ \A i \in 1..Len(game.obstacles) :
         game.obstacles[Len(game.obstacles)].y <= game.obstacles[i].y

\* a playing state after the generator has appended an obstacle and pruning
\* has removed one
C26_Witness ==
  /\ mounted /\ game.status = "playing"
  /\ GenerationIndex(game.obstacles[1]) >= 1
  /\ GenerationIndex(game.obstacles[Len(game.obstacles)]) >= 5

\* C30: onGameOver is called at most once per GameCanvas instance: once the
\* game of the mounted instance is over, no gameLoop invocation sends another
\* game-over notification.
C30_GameOverNotifiedOnce ==
  [][ (tick'.step = "gameLoop" /\ mounted /\ game.status = "gameover"
         /\ gameKey' = gameKey /\ game'.status = "gameover") =>
        \A i \in 1..Len(out') : out'[i].kind # "gameover" ]_vars

C27_PauseFreezesCountdown ==
  [][ (/\ tick'.step = "gameLoop" /\ tick'.ran
       /\ lastTime = 0 /\ toggles > 0 /\ ~isPaused /\ screen = "playing"
       /\ cur.gs = "playing") =>
        tick'.applied = <<>> ]_vars

\* the distance of the ball of a checkCollision call from the obstacle's
\* centre, the ball being on an axis through it
CallDistance == Abs(tick.ball.x - tick.centerX) + Abs(tick.ball.y - tick.obstacle.y)

\* the ball of a checkCollision call is strictly between the two radii
CallInBand ==
  LET thickness == IF tick.obstacle.type = "dotCircle" THEN 20 ELSE 14
  IN /\ CallDistance > Px(140 - thickness - 15)
     /\ CallDistance < Px(140 + thickness + 15)

\* C22: checkCollision returns false whenever the ball's distance from the
\* obstacle's centre is <= radius - thickness - ball.radius or >= radius +
\* thickness + ball.radius (thickness 20 for a dotCircle, 14 for a ring or
\* halfRing), whatever the ball's color and the obstacle's rotation.
C22_NoCollisionOutsideBand ==
  (tick.step = "checkCollision" /\ ~CallInBand) => tick.result = FALSE

\* a call with the ball exactly on a radius of the band, where the segment
\* it faces has another color
C22_Witness ==
  /\ tick.step = "checkCollision"
  /\ tick.result = FALSE
  /\ CallDistance \in {Px(105), Px(111), Px(169), Px(175)}
  /\ ~CallInBand
  /\ tick.obstacle.rotation < 0
  /\ tick.ball.color # BandColor(tick.ball, tick.obstacle, tick.centerX)

\* the angle a of C23 for a checkCollision call: the direction from the
\* centre to the ball minus the rotation, brought into [0, 2 pi)
CallAngle ==
  LET dx == tick.ball.x - tick.centerX
      dy == tick.ball.y - tick.obstacle.y
      direction == IF dx > 0 THEN 0               \* right of the centre
                   ELSE IF dx < 0 THEN 314159     \* left: pi
                   ELSE IF dy > 0 THEN 157079     \* below (y grows downwards): pi / 2
                   ELSE -157079                   \* above: -pi / 2
      turned == direction - tick.obstacle.rotation
  IN turned - 628318 * (turned \div 628318)

\* C23: with the ball inside the band, the segment whose color is compared
\* has index floor(a / (pi/2)) mod 4 for a ring or halfRing and
\* floor(floor(a / (2 pi) * 24) / 6) mod 4 for a dotCircle, an index in 0..3
\* into COLOR_ORDER: checkCollision returns false exactly for a ball of that
\* color.
C23_SegmentOfAngle ==
  (tick.step = "checkCollision" /\ CallInBand) =>
    LET a == CallAngle
        segment == IF tick.obstacle.type = "dotCircle"
                   THEN (((a * 24) \div 628318) \div 6) % 4
                   ELSE (a \div 157079) % 4
    IN /\ segment \in 0..3
       /\ tick.result = (tick.ball.color # COLOR_ORDER[segment + 1])

\* a call with the ball inside the band of a dotCircle turned backwards by
\* more than a turn, facing the last color group, in that color
C23_Witness ==
  /\ tick.step = "checkCollision" /\ CallInBand
  /\ tick.obstacle.type = "dotCircle"
  /\ tick.obstacle.rotation < 0 - TwoPi
  /\ tick.ball.color = COLOR_ORDER[4]
  /\ tick.result = FALSE

\* C29: in every tick ball.x equals canvas.width / 2, so that dx is 0 in
\* checkCollision, also after the window was resized while the session is
\* playing.
C29_BallOnCentreLine ==
  [][ (tick'.step = "gameLoop" /\ tick'.ran) =>
        game'.ball.x = Px(canvas'.w) \div 2 ]_vars

\* the element of sequence q with the id of e
SameId(q, e) == CHOOSE x \in {q[i] : i \in 1..Len(q)} : x.id = e.id

C31_FrontierExists ==
  [][ (/\ tick'.step = "gameLoop" /\ tick'.ran
       /\ \E n \in 1..Len(tick'.phases) : tick'.phases[n] = "generation") =>
        /\ game.obstacles # <<>>
        /\ game'.obstacles # <<>>
        /\ \E i \in 1..Len(game.obstacles) :
             LET frontier == game.obstacles[i].y
                 New(before, after) ==
                   {Added(before, after)[n] : n \in 1..Len(Added(before, after))}
             IN /\ \A j \in 1..Len(game.obstacles) : frontier <= game.obstacles[j].y
                /\ \A o \in New(game.obstacles, game'.obstacles) :
                     o.y = frontier - Px(300)
                /\ \A w \in New(game.colorSwitchers, game'.colorSwitchers) :
                     w.y = frontier - Px(150)
                /\ \A r \in New(game.stars, game'.stars) :
                     r.y = frontier - Px(190) ]_vars

\* the generation step ran on a list from which pruning had removed
\* obstacles, and created an obstacle
C31_Witness ==
  /\ tick.step = "gameLoop" /\ tick.ran
  /\ idCtr > tick.before.idCtr
  /\ tick.before.obstacles < 5
  /\ Len(game.obstacles) = tick.before.obstacles + 1

\* C32: every obstacle the pruning step of a tick removes has passed = true
\* when it is removed: it was passed before the tick, or the pass loop of the
\* tick has marked it (the ball is above its pass line, 155 px above its
\* centre).
C32_PrunedWerePassed ==
  [][ (tick'.step = "gameLoop" /\ tick'.ran) =>
        \A i \in 1..Len(game.obstacles) :
          game.obstacles[i].id \notin Ids(game'.obstacles) =>
            \/ game.obstacles[i].passed
            \/ game'.ball.y < game.obstacles[i].y - Px(155) ]_vars

\* C33: the score a game-over notification carries is the score the parent
\* holds from the last score-changed notification of the play-through (0 if
\* there was none), whatever taps, pauses and resumes came before.  The
\* notifications considered are those delivered while the playing screen is
\* shown, the first of a play-through.
C33_FinalScoreIsShownScore ==
  [][ (tick'.step = "gameLoop" /\ screen = "playing") =>
        \A i \in 1..Len(out') :
          out'[i].kind = "gameover" => out'[i].score = uiScore' ]_vars

\* C34: once the player has stopped tapping, a session that is playing and
\* whose frame callbacks keep being requested and run (every refresh 250 ms
\* after the one before) eventually has status 'gameover'.
QuietPlaying ==
  /\ mounted /\ game.status = "playing"
  /\ Quiet
  /\ (raf # <<>> \/ frameQ # <<>>)

C34_QuietSessionEnds == QuietPlaying ~> (game.status = "gameover")

\* a session ended at the bottom boundary after the player stopped tapping
C34_Witness ==
  /\ Quiet
  /\ tick.step = "gameLoop" /\ tick.ran /\ tick.via = "boundary"
  /\ game.status = "gameover"

\* C35: a pending colour change is not lost.  In a session on the playing
\* screen whose frame callbacks keep being requested and run, with refreshes
\* still to come up to the time the change is due, the change is eventually
\* applied by a tick, unless the game is over first; and the pending record
\* changes only in a tick that applies it (a new GameCanvas instance, mounted
\* by handleStart after a game over, starts with a record of its own).
PendingWithTicks ==
  /\ pending # <<>>
  /\ mounted /\ screen = "playing" /\ game.status = "playing"
  /\ (raf # <<>> \/ frameQ # <<>>)
  /\ \A d \in FrameDeltas : now + (MaxFrames - frames) * d >= pending[1].timestamp

PendingApplied == tick.step = "gameLoop" /\ tick.ran /\ tick.applied # <<>>

====
